---- MODULE Spec2Model ----
(***************************************************************************)
(* Model of two leaf utilities of rag_experiment_accelerator:              *)
(*   llm/prompt_execution.py   generate_response (tenacity retry wrapper)  *)
(*   doc_loader/htmlLoader.py  load_html_files_semantic                    *)
(* Texts and file names are sequences of characters, one string each.      *)
(***************************************************************************)
EXTENDS Integers, Sequences, FiniteSets, TLC

VARIABLES
    pc,             \* position of the generate_response call
    api_type,       \* openai.api_type, the ambient backend type
    attempt_number, \* tenacity's retry_state.attempt_number
    calls,          \* number of openai.ChatCompletion.create calls made
    failures,       \* number of attempts that ended in an exception
    failure,        \* exception of the last failed attempt, if any
    request,        \* params handed to the backend in the current attempt
    response,       \* what the backend returned in the current attempt
    result,         \* value returned to the caller
    error,          \* exception propagated to the caller
    lpc,            \* position of the load_html_files_semantic call
    tree,           \* files below folder_path (paths relative to it)
    chunk_yield,    \* what partition_html/chunk_elements give per file
    pattern_idx,    \* index of the next pattern of glob_patterns
    matching_files, \* the local list matching_files
    all_chunks,     \* the local dict all_chunks
    lerror          \* exception propagated by load_html_files_semantic

gvars == <<pc, api_type, attempt_number, calls, failures, failure,
           request, response, result, error>>
lvars == <<lpc, tree, chunk_yield, pattern_idx, matching_files,
           all_chunks, lerror>>
vars == <<gvars, lvars>>

\* ---------------------------------------------------------------------
\* Bounds of the model
\* ---------------------------------------------------------------------
MaxParts == 4
MaxDepth == 1
MaxFiles == 2
MaxChunks == 1

\* ---------------------------------------------------------------------
\* Texts
\* ---------------------------------------------------------------------
NL == <<"\n">>
TAB == <<"\t">>
\* "bq" stands for the backquote character
Fence == <<"bq", "bq", "bq">>
JsonFence == Fence \o <<"j", "s", "o", "n">>
Obj == <<"{", "\"", "a", "\"", ":", " ", "1", "}">>

Fragments == {NL, TAB, Fence, JsonFence, JsonFence \o NL, Obj}

RECURSIVE Flatten(_)
Flatten(parts) ==
    IF parts = <<>> THEN <<>> ELSE Head(parts) \o Flatten(Tail(parts))

RawTexts ==
    {Flatten(p) : p \in UNION {[1..n -> Fragments] : n \in 0..MaxParts}}

\* does old occur in s at position i
MatchesAt(s, old, i) ==
    /\ i + Len(old) - 1 <= Len(s)
    /\ SubSeq(s, i, i + Len(old) - 1) = old

\* str.replace(old, empty): left-to-right scan, non-overlapping occurrences
RECURSIVE ReplaceFrom(_, _, _)
ReplaceFrom(s, old, i) ==
    IF i > Len(s) THEN <<>>
    ELSE IF MatchesAt(s, old, i) THEN ReplaceFrom(s, old, i + Len(old))
    ELSE <<s[i]>> \o ReplaceFrom(s, old, i + 1)

replace(s, old) == ReplaceFrom(s, old, 1)

Cleanse_NewlinesFirst(answer) ==
    LET a1 == replace(answer, NL)
        a2 == replace(a1, JsonFence \o NL)
        a3 == replace(a2, NL \o Fence)
    IN  replace(a3, TAB)

Cleanse_KeepClosingFence(answer) ==
    LET a1 == replace(answer, JsonFence \o NL)
        a3 == replace(a1, NL)
    IN  replace(a3, TAB)

\* prompt_execution.py lines 44-47
Cleanse(answer) ==
    LET a1 == replace(answer, JsonFence \o NL)
        a2 == replace(a1, NL \o Fence)
        a3 == replace(a2, NL)
    IN  replace(a3, TAB)

\* ---------------------------------------------------------------------
\* generate_response
\* ---------------------------------------------------------------------
ApiTypes == {"azure", "open_ai"}
engine_model == "gpt-35-turbo"
sys_message == "sys"
prompt == "ask"
temperature == 0

\* exceptions ChatCompletion.create raises
BackendErrors == {"RateLimitError", "InvalidRequestError"}
\* exceptions raised by lines 41-47 on a response that has no text
ExtractErrors == {"IndexError", "AttributeError"}
FailureKinds == BackendErrors \cup ExtractErrors

NoChoices == [choices |-> <<>>]
NullContent == [choices |-> <<[content |-> "None", text |-> <<>>]>>]
TextResponse(t) == [choices |-> <<[content |-> "str", text |-> t]>>]
Responses == {NoChoices, NullContent} \cup {TextResponse(t) : t \in RawTexts}

NoValue == "NoValue"
NoError == "NoError"
NoRequest == [f \in {} |-> ""]
NoResponse == [choices |-> <<[content |-> "unset", text |-> <<>>]>>]

\* stop=stop_after_attempt(6)
MaxAttempts == 6

stop_after_attempt_Seven(n) == n >= MaxAttempts + 1

stop_after_attempt(n) == n >= MaxAttempts

retry_TransientOnly(kind) == kind = "RateLimitError"

\* tenacity's default retry predicate: retry_if_exception_type(Exception)
retry(kind) == kind \in FailureKinds

params_BothFields ==
    [f \in {"messages", "temperature", "engine", "model"} |->
        CASE f = "messages" -> <<sys_message, prompt>>
          [] f = "temperature" -> temperature
          [] OTHER -> engine_model]

\* lines 22-38: the request of one attempt
params ==
    IF api_type = "azure"
    THEN [messages |-> <<sys_message, prompt>>, temperature |-> temperature,
          engine |-> engine_model]
    ELSE [messages |-> <<sys_message, prompt>>, temperature |-> temperature,
          model |-> engine_model]

GInit ==
    /\ pc = "attempt"
    /\ api_type \in ApiTypes
    /\ attempt_number = 1
    /\ calls = 0
    /\ failures = 0
    /\ failure = NoError
    /\ request = NoRequest
    /\ response = NoResponse
    /\ result = NoValue
    /\ error = NoError

LIdle ==
    /\ lpc = "idle"
    /\ tree = {}
    /\ chunk_yield = <<>>
    /\ pattern_idx = 1
    /\ matching_files = <<>>
    /\ all_chunks = <<>>
    /\ lerror = NoError

\* lines 22-38
BuildRequest ==
    /\ pc = "attempt"
    /\ request' = params
    /\ pc' = "call"
    /\ UNCHANGED <<api_type, attempt_number, calls, failures, failure,
                   response, result, error>>

AttemptFailed_Reraise(kind) ==
    /\ failures' = failures + 1
    /\ failure' = kind
    /\ result' = NoValue
    /\ IF ~retry(kind) \/ stop_after_attempt(attempt_number)
       THEN /\ pc' = "raised"
            /\ error' = kind
            /\ UNCHANGED attempt_number
       ELSE /\ pc' = "attempt"
            /\ error' = NoError
            /\ attempt_number' = attempt_number + 1

\* tenacity after an attempt raised kind: retry (sleep, next attempt) or
\* give up with RetryError; an exception the predicate rejects is re-raised
AttemptFailed(kind) ==
    /\ failures' = failures + 1
    /\ failure' = kind
    /\ result' = NoValue
    /\ IF ~retry(kind)
       THEN /\ pc' = "raised"
            /\ error' = kind
            /\ UNCHANGED attempt_number
       ELSE IF stop_after_attempt(attempt_number)
       THEN /\ pc' = "raised"
            /\ error' = "RetryError"
            /\ UNCHANGED attempt_number
       ELSE /\ pc' = "attempt"
            /\ error' = NoError
            /\ attempt_number' = attempt_number + 1

\* line 40 raises
BackendRaises ==
    /\ pc = "call"
    /\ calls' = calls + 1
    /\ \E kind \in BackendErrors : AttemptFailed(kind)
    /\ response' = NoResponse
    /\ UNCHANGED <<api_type, request>>

\* line 40 returns
BackendResponds ==
    /\ pc = "call"
    /\ calls' = calls + 1
    /\ \E r \in Responses : response' = r
    /\ pc' = "extract"
    /\ failure' = NoError
    /\ UNCHANGED <<api_type, attempt_number, failures, request, result, error>>

\* line 41 raises IndexError on an empty choices list; line 44 raises
\* AttributeError when the content is None
ExtractFails ==
    /\ pc = "extract"
    /\ \/ /\ response.choices = <<>>
          /\ AttemptFailed("IndexError")
       \/ /\ response.choices # <<>>
          /\ response.choices[1].content = "None"
          /\ AttemptFailed("AttributeError")
    /\ UNCHANGED <<api_type, calls, request, response>>

\* lines 41-49
ReturnAnswer ==
    /\ pc = "extract"
    /\ response.choices # <<>>
    /\ response.choices[1].content = "str"
    /\ result' = Cleanse(response.choices[1].text)
    /\ pc' = "returned"
    /\ UNCHANGED <<api_type, attempt_number, calls, failures, failure,
                   request, response, error>>

GNext ==
    \/ BuildRequest
    \/ BackendRaises
    \/ BackendResponds
    \/ ExtractFails
    \/ ReturnAnswer

GenNext == GNext /\ UNCHANGED lvars

GenInit == GInit /\ LIdle

GenSpec == GenInit /\ [][GenNext]_vars

\* ---------------------------------------------------------------------
\* load_html_files_semantic
\* ---------------------------------------------------------------------
html == <<"h", "t", "m", "l">>
htm == <<"h", "t", "m">>
xhtml == <<"x", "h", "t", "m", "l">>
html5 == <<"h", "t", "m", "l", "5">>
txt == <<"t", "x", "t">>

\* the default of the parameter glob_patterns
glob_patterns == <<html, htm, xhtml, html5>>

\* names a folder tree is built from
FileNames ==
    {<<"a", ".">> \o e : e \in {html, htm, xhtml, html5, txt}}
        \cup {<<".", "a", ".">> \o html, <<"~", "a", ".">> \o htm}
DirNames == {<<"d">>, <<".", "g">>}

\* a path is the sequence of its segments below folder_path
DirPaths == UNION {[1..n -> DirNames] : n \in 0..MaxDepth}
Paths == {d \o <<f>> : d \in DirPaths, f \in FileNames}
Trees ==
    UNION {{{f[i] : i \in 1..n} : f \in [1..n -> Paths]} : n \in 0..MaxFiles}

\* outcome of partition_html and chunk_elements on one file: the number of
\* chunks, or a negative number when one of them raises
Yields == (0 - 1)..MaxChunks

\* glob._ishidden
ishidden(name) == name[1] = "."

EndsWith(name, suffix) ==
    /\ Len(name) >= Len(suffix)
    /\ SubSeq(name, Len(name) - Len(suffix) + 1, Len(name)) = suffix

fnmatch_NoExclusion(name, ext) ==
    /\ EndsWith(name, <<".">> \o ext)
    /\ ~ishidden(name)

\* line 71: does name match the last component "[!.~]*.<ext>"
fnmatch(name, ext) ==
    /\ Len(name) >= Len(ext) + 2
    /\ name[1] \notin {".", "~"}
    /\ EndsWith(name, <<".">> \o ext)

\* lines 71-73: glob.glob(folder_path/**/[!.~]*.<ext>, recursive=True);
\* "**" descends into the directories that are not hidden
globbed(t, ext) ==
    {p \in t : /\ \A i \in 1..(Len(p) - 1) : ~ishidden(p[i])
               /\ fnmatch(p[Len(p)], ext)}

\* the orders in which a directory scan can list a set of paths
Orders(S) ==
    {o \in [1..Cardinality(S) -> S] :
        \A i, j \in 1..Cardinality(S) : o[i] = o[j] => i = j}

GIdle ==
    /\ pc = "idle"
    /\ api_type = "open_ai"
    /\ attempt_number = 1
    /\ calls = 0
    /\ failures = 0
    /\ failure = NoError
    /\ request = NoRequest
    /\ response = NoResponse
    /\ result = NoValue
    /\ error = NoError

LInit ==
    /\ lpc = "glob"
    /\ tree \in Trees
    /\ chunk_yield \in [tree -> Yields]
    /\ pattern_idx = 1
    /\ matching_files = <<>>
    /\ all_chunks = <<>>
    /\ lerror = NoError

\* lines 69-73: one iteration of the loop over glob_patterns
GlobPattern ==
    /\ lpc = "glob"
    /\ pattern_idx <= Len(glob_patterns)
    /\ \E o \in Orders(globbed(tree, glob_patterns[pattern_idx])) :
           matching_files' = matching_files \o o
    /\ pattern_idx' = pattern_idx + 1
    /\ UNCHANGED <<lpc, tree, chunk_yield, all_chunks, lerror>>

\* lines 75-79: loader_kwargs is assigned in the function and is not a
\* parameter, so it is a local; line 78 reads it before any assignment and
\* raises UnboundLocalError.  Lines 81-90 are never reached.
CheckLoaderKwargs ==
    /\ lpc = "glob"
    /\ pattern_idx > Len(glob_patterns)
    /\ lpc' = "raised"
    /\ lerror' = "UnboundLocalError"
    /\ UNCHANGED <<tree, chunk_yield, pattern_idx, matching_files, all_chunks>>

LNext ==
    \/ GlobPattern
    \/ CheckLoaderKwargs

LoaderNext == LNext /\ UNCHANGED gvars

LoaderInit == GIdle /\ LInit

LoaderSpec == LoaderInit /\ [][LoaderNext]_vars

\* ---------------------------------------------------------------------
\* Properties of generate_response
\* ---------------------------------------------------------------------
\* the positions of s at which an occurrence of pat starts
Occurrences(s, pat) ==
    {i \in 1..(Len(s) - Len(pat) + 1) :
        \A k \in 1..Len(pat) : s[i + k - 1] = pat[k]}

\* s without the characters of any occurrence of pat, the rest in order
RemoveEvery(s, pat) ==
    LET occ == Occurrences(s, pat)
        covered == {i + k : i \in occ, k \in 0..(Len(pat) - 1)}
        keep == SelectSeq([j \in 1..Len(s) |-> j],
                          LAMBDA j : j \notin covered)
    IN  [k \in 1..Len(keep) |-> s[keep[k]]]

Stripped(raw) ==
    RemoveEvery(RemoveEvery(RemoveEvery(RemoveEvery(raw,
        JsonFence \o NL), NL \o Fence), NL), TAB)

RawOfAttempt == response.choices[1].text

\* C1: a call makes at most 6 backend calls; a call that returns after k
\* failed attempts (0 <= k <= 5) has made exactly k+1 backend calls and
\* returns the cleansed text of the attempt that succeeded.
C1_AtMostSixCalls ==
    /\ calls <= 6
    /\ pc = "returned" =>
          /\ failures \in 0..5
          /\ calls = failures + 1
          /\ result = Stripped(RawOfAttempt)

C1_Witness ==
    /\ pc = "returned"
    /\ failures = 5
    /\ calls = 6
    /\ RawOfAttempt = JsonFence \o NL \o Obj
    /\ result = Obj

\* C2: when all 6 attempts have failed the call has ended with the
\* retries-exhausted wrapper (tenacity's RetryError) raised to the caller,
\* nothing is returned and no 7th backend call is made.
C2_RetriesExhausted ==
    failures >= 6 =>
        /\ pc = "raised"
        /\ error = "RetryError"
        /\ result = NoValue
        /\ failures = 6
        /\ calls = 6

C2_Witness ==
    /\ failures = 6
    /\ pc = "raised"
    /\ error = "RetryError"
    /\ failure = "RateLimitError"

\* C3: the request of every attempt carries the model identifier under
\* engine when api_type is "azure" and under model otherwise, never under
\* both and never under neither.
C3_ProviderField ==
    pc \in {"call", "extract", "returned"} =>
        /\ {"engine", "model"} \cap DOMAIN request =
              (IF api_type = "azure" THEN {"engine"} ELSE {"model"})
        /\ \A f \in {"engine", "model"} \cap DOMAIN request :
              request[f] = engine_model

C3_Witness ==
    /\ pc = "call"
    /\ attempt_number = 2
    /\ api_type = "open_ai"
    /\ DOMAIN request = {"messages", "temperature", "model"}

\* C4: the returned value is the raw text after removing, in this order,
\* every "```json" + newline, every newline + "```", every newline and
\* every tab; the other characters stay in their order.
C4_CleanseSteps ==
    pc = "returned" => result = Stripped(RawOfAttempt)

C4_Witness ==
    /\ pc = "returned"
    /\ RawOfAttempt = NL \o JsonFence \o NL \o Fence \o TAB
    /\ result = <<>>

C5_Raw == JsonFence \o NL \o Obj \o NL \o Fence

\* C5 as stated: the fenced object comes back as {"a": 1}" (with a
\* trailing double quote).
C5_TrailingQuote ==
    (pc = "returned" /\ RawOfAttempt = C5_Raw) => result = Obj \o <<"\"">>

\* C5 amended: the fenced object comes back as {"a": 1}, without the fence
\* markers and the newlines, and with no trailing quote.
C5_FencedObject ==
    (pc = "returned" /\ RawOfAttempt = C5_Raw) => result = Obj

C5_Witness ==
    /\ pc = "returned"
    /\ RawOfAttempt = C5_Raw
    /\ Len(result) = 8

\* C10: a failure of any kind, also one raised after the backend answered,
\* starts a new attempt as long as fewer than 6 attempts were made; nothing
\* is raised to the caller before the 6th attempt has failed.
C10_AnyFailureRetried ==
    /\ [](pc = "raised" => failures = 6)
    /\ [][(failures' = failures + 1 /\ failures < 5) =>
            (pc' = "attempt" /\ error' = NoError
                /\ attempt_number' = attempt_number + 1)]_vars
    /\ [][(pc = "attempt" /\ pc' = "call") => DOMAIN request' # {}]_vars

C10_Witness ==
    /\ pc = "call"
    /\ failure \in ExtractErrors
    /\ calls = attempt_number - 1
    /\ calls >= 1
    /\ DOMAIN request # {}

\* ---------------------------------------------------------------------
\* Properties of load_html_files_semantic
\* ---------------------------------------------------------------------
Discovered == {matching_files[i] : i \in 1..Len(matching_files)}
DiscoveryDone == pattern_idx > Len(glob_patterns)

NameOf(p) == p[Len(p)]
BeginsDotOrTilde(name) == Head(name) \in {".", "~"}

\* the name ends in ".<e>" for one of the four extensions, after a stem
HasHtmlExtension(name) ==
    \E k \in 2..Len(name) :
        /\ name[k] = "."
        /\ \A m \in (k + 1)..Len(name) : name[m] # "."
        /\ SubSeq(name, k + 1, Len(name)) \in {html, htm, xhtml, html5}

UnderHiddenDir(p) == \E i \in 1..(Len(p) - 1) : Head(p[i]) = "."

\* C7 as stated: discovery leaves out every file whose name begins with "."
\* or "~" and finds every other file with one of the four extensions, in
\* any subdirectory.
C7_EveryDepth ==
    DiscoveryDone =>
        \A p \in tree :
            /\ BeginsDotOrTilde(NameOf(p)) => p \notin Discovered
            /\ (~BeginsDotOrTilde(NameOf(p)) /\ HasHtmlExtension(NameOf(p)))
                  => p \in Discovered

\* C7 amended: discovery leaves out every file whose name begins with "."
\* or "~" and every file below a directory whose name begins with ".", and
\* finds every other file with one of the four extensions at every depth.
C7_NotUnderHiddenDir ==
    DiscoveryDone =>
        \A p \in tree :
            /\ BeginsDotOrTilde(NameOf(p)) => p \notin Discovered
            /\ UnderHiddenDir(p) => p \notin Discovered
            /\ (/\ ~BeginsDotOrTilde(NameOf(p))
                /\ HasHtmlExtension(NameOf(p))
                /\ ~UnderHiddenDir(p)) => p \in Discovered

C7_Witness ==
    /\ DiscoveryDone
    /\ <<<<"d">>, <<"a", ".">> \o html5>> \in Discovered
    /\ <<<<".", "g">>, <<"a", ".">> \o html>> \in tree \ Discovered

RECURSIVE SumYield(_)
SumYield(files) ==
    IF files = <<>> THEN 0
    ELSE chunk_yield[Head(files)] + SumYield(Tail(files))

NoFileFails == \A i \in 1..Len(matching_files) : chunk_yield[matching_files[i]] >= 0

\* C6: a run over files that yield c_1..c_n chunks returns a collection
\* whose keys are exactly 0..(c_1+...+c_n)-1.
C6_DenseIds ==
    (DiscoveryDone /\ NoFileFails /\ SumYield(matching_files) > 0) =>
        /\ lerror = NoError
        /\ lpc = "returned" =>
              DOMAIN all_chunks = 0..(SumYield(matching_files) - 1)

\* C8: a run in which no file matches any pattern raises no error and its
\* result is empty.
C8_EmptyIsNoError ==
    (DiscoveryDone /\ matching_files = <<>>) =>
        /\ lerror = NoError
        /\ DOMAIN all_chunks = {}

\* C9: a run in which partitioning or chunking fails for a discovered file
\* ends with that failure raised to the caller and returns no collection.
C9_PartitionFailurePropagates ==
    (lpc # "glob" /\ ~NoFileFails) =>
        /\ lpc = "raised"
        /\ lerror = "PartitionError"

====
